---- MODULE Spec2Model ----
(***************************************************************************)
(* The virtual storage node of CloudSimulation-mininet                     *)
(* (src/SingleVMs/Virtual_machine_1.py; the lifecycle half is repeated     *)
(* verbatim in src/Multi_VM_P2P.py).                                       *)
(*                                                                         *)
(* A Python str is a sequence of one-character strings, so that the path   *)
(* functions of os.path are computed, not assumed.  The host the commands  *)
(* run on is part of the state: the backing image, whether it is mounted,  *)
(* and the tree inside the image.                                          *)
(***************************************************************************)
EXTENDS Integers, Sequences, FiniteSets, TLC

\* ------------------------------------------------------------------ bounds

\* total_storage_bytes given to the constructor, in model size units.
TotalStorage == 1

\* stat's %s of a directory of the image, in model size units (one block).
DirStatSize == 1

\* ------------------------------------------------------- strings and paths

SEP == "/"

\* str.startswith(prefix)
StartsWith(s, prefix) ==
    /\ Len(s) >= Len(prefix)
    /\ SubSeq(s, 1, Len(prefix)) = prefix

\* str.lstrip('/')
RECURSIVE LStrip(_)
LStrip(s) ==
    IF s # <<>> /\ Head(s) = SEP THEN LStrip(Tail(s)) ELSE s

\* str.rstrip('/')
RECURSIVE RStrip(_)
RStrip(s) ==
    IF s # <<>> /\ s[Len(s)] = SEP THEN RStrip(SubSeq(s, 1, Len(s) - 1)) ELSE s

\* str.rfind('/') + 1
RFindSep(s) ==
    LET hits == {i \in 1..Len(s) : s[i] = SEP}
    IN  IF hits = {} THEN 0 ELSE CHOOSE i \in hits : \A j \in hits : j <= i

\* str.split('/')
RECURSIVE SplitSep(_)
SplitSep(s) ==
    LET hits == {i \in 1..Len(s) : s[i] = SEP}
    IN  IF hits = {} THEN <<s>>
        ELSE LET i == CHOOSE k \in hits : \A j \in hits : k <= j
             IN  <<SubSeq(s, 1, i - 1)>> \o SplitSep(SubSeq(s, i + 1, Len(s)))

\* '/'.join(comps)
RECURSIVE JoinSep(_)
JoinSep(comps) ==
    IF comps = <<>> THEN <<>>
    ELSE IF Len(comps) = 1 THEN comps[1]
    ELSE comps[1] \o <<SEP>> \o JoinSep(Tail(comps))

\* str.replace(old, new, 1) for one-character old and new.
ReplaceFirst(s, old, new) ==
    LET hits == {i \in 1..Len(s) : s[i] = old}
    IN  IF hits = {} THEN s
        ELSE LET i == CHOOSE k \in hits : \A j \in hits : k <= j
             IN  [s EXCEPT ![i] = new]

\* ord(c) of the characters the inputs are written in.
Ord(c) ==
    CASE c = "." -> 46
      [] c = "/" -> 47
      [] c = "a" -> 97
      [] c = "b" -> 98
      [] c = "m" -> 109
      [] c = "~" -> 126

\* s < t on str: the first differing character decides, a proper prefix is
\* smaller.
RECURSIVE StrLess(_, _)
StrLess(s, t) ==
    IF t = <<>> THEN FALSE
    ELSE IF s = <<>> THEN TRUE
    ELSE IF Head(s) # Head(t) THEN Ord(Head(s)) < Ord(Head(t))
    ELSE StrLess(Tail(s), Tail(t))

\* sorted(keys) for a set of str.
RECURSIVE SortedKeys(_)
SortedKeys(keys) ==
    IF keys = {} THEN <<>>
    ELSE LET least == CHOOSE k \in keys : \A x \in keys \ {k} : StrLess(k, x)
         IN  <<least>> \o SortedKeys(keys \ {least})

\* str(n) for n >= 0.
RECURSIVE Str(_)
Str(n) ==
    LET digits == <<"0", "1", "2", "3", "4", "5", "6", "7", "8", "9">>
    IN  IF n < 10 THEN <<digits[n + 1]>>
        ELSE Str(n \div 10) \o <<digits[(n % 10) + 1]>>

\* f"{s:<width}": s padded with spaces on the right.
PadRight(s, width) ==
    IF Len(s) >= width THEN s ELSE s \o [i \in 1..(width - Len(s)) |-> " "]

\* posixpath.split(p)[0]: the head, everything before the last component.
PathHead(p) ==
    LET head == SubSeq(p, 1, RFindSep(p))
    IN  IF head # <<>> /\ LStrip(head) # <<>> THEN RStrip(head) ELSE head

\* posixpath.split(p)[1]
PathTail(p) == SubSeq(p, RFindSep(p) + 1, Len(p))

\* posixpath.join(a, b)
PathJoin(a, b) ==
    IF StartsWith(b, <<SEP>>) THEN b
    ELSE IF a = <<>> \/ a[Len(a)] = SEP THEN a \o b
    ELSE a \o <<SEP>> \o b

\* The loop of posixpath.normpath over the components.
RECURSIVE NormComps(_, _, _)
NormComps(comps, new, slashes) ==
    IF comps = <<>> THEN new
    ELSE LET comp == Head(comps)
             rest == Tail(comps)
         IN  IF comp = <<>> \/ comp = <<".">> THEN NormComps(rest, new, slashes)
             ELSE IF \/ comp # <<".", ".">>
                     \/ (slashes = 0 /\ new = <<>>)
                     \/ (new # <<>> /\ new[Len(new)] = <<".", ".">>)
                  THEN NormComps(rest, Append(new, comp), slashes)
             ELSE IF new # <<>>
                  THEN NormComps(rest, SubSeq(new, 1, Len(new) - 1), slashes)
             ELSE NormComps(rest, new, slashes)

\* posixpath.normpath(path)
NormPath(path) ==
    IF path = <<>> THEN <<".">>
    ELSE LET slashes ==
                 IF ~StartsWith(path, <<SEP>>) THEN 0
                 ELSE IF StartsWith(path, <<SEP, SEP>>)
                         /\ ~StartsWith(path, <<SEP, SEP, SEP>>) THEN 2
                 ELSE 1
             body == JoinSep(NormComps(SplitSep(path), <<>>, slashes))
             out  == [i \in 1..slashes |-> SEP] \o body
         IN  IF out = <<>> THEN <<".">> ELSE out

\* The non-empty components of an absolute path, as relpath lists them.
PathList(p) == SelectSeq(SplitSep(NormPath(p)), LAMBDA c : c # <<>>)

\* Length of the common prefix of two component lists.
RECURSIVE CommonLen(_, _)
CommonLen(a, b) ==
    IF a = <<>> \/ b = <<>> \/ Head(a) # Head(b) THEN 0
    ELSE 1 + CommonLen(Tail(a), Tail(b))

\* posixpath.relpath(path, start), both absolute.
RelPath(path, start) ==
    LET start_list == PathList(start)
        path_list  == PathList(path)
        i          == CommonLen(start_list, path_list)
        rel_list   == [k \in 1..(Len(start_list) - i) |-> <<".", ".">>]
                         \o SubSeq(path_list, i + 1, Len(path_list))
    IN  IF rel_list = <<>> THEN <<".">> ELSE JoinSep(rel_list)

\* ------------------------------------------------------------------ inputs

\* Strings the callers pass.  "a" and "b" are entry names, "m" is the mount
\* directory /m.
disk_path == <<"/", "m">>

KeyA   == <<"a">>
KeyB   == <<"b">>
KeyAB  == <<"a", "/", "b">>

\* path_key arguments of create_virtual_file.
KeyInputs == {KeyA, KeyB, KeyAB}

\* path_key arguments of create_virtual_folder.
FolderInputs == {KeyA, KeyAB}

\* size_bytes arguments of create_virtual_file.
Sizes == 0..(TotalStorage + 1)

\* path arguments of change_directory.
CdInputs == {<<>>, <<"/">>, <<"~">>, <<".", ".">>, <<"a">>}

\* path_key arguments a caller that bypasses StorageCLI can pass: the empty
\* key, ".", an absolute path, and an ordinary name.
DirectKeys == {<<>>, <<".">>, <<"/", "a">>, KeyA}

\* Values of cwd: the root and resolved paths of folders.
CwdValues == {<<"/">>, <<"/", "a">>, <<"/", "a", "/", "b">>, <<"/", "/", "a">>}

\* path arguments of _resolve_path.
ResolveInputs ==
    {<<>>, <<"/">>, <<"~">>, <<".">>, <<".", ".">>, <<"a">>, <<"b">>,
     <<"a", "/", "b">>, <<".", ".", "/", "b">>, <<"a", "/", ".", "/", "b">>,
     <<"/", "a", "/", "b">>, <<"/", "a", "/", ".", ".", "/", "b">>,
     <<"~", "a">>, <<"~", "/", "a">>, <<"/", "a", "~", "b">>}

\* ------------------------------------------------------------------- state

VARIABLES
    is_running,     \* self.is_running
    used_storage,   \* self.used_storage
    files,          \* self.files: path_key -> [size_bytes, is_folder]
    cwd,            \* self.cwd
    image,          \* host: the file at image_path: "absent", "raw", "formatted"
    mounted,        \* host: whether the image is mounted at disk_path
    disk,           \* host: the tree inside the image: key -> [is_dir, size]
    call,           \* the operation called last
    result,         \* what that call returned
    cmds,           \* the commands that call handed to host.cmd, in order
    preStop,        \* right after a successful stop(): the index and usage it cleared
    listing,        \* the lines list_contents() returned, if it was the last call
    path_arg,       \* the argument of the last _resolve_path() called on its own
    resolved,       \* what that _resolve_path() returned
    sim_pc,         \* Multi_VM_P2P.run_simulation: where the run is
    sim_next,       \* run_simulation: the index of the loop it is in
    sim_exit,       \* run_simulation: how the run reached its finally block
    sim_vm,         \* run_simulation: each VM's image, mount and storage node
    storage_nodes   \* run_simulation: the names in its storage_nodes dict, in order

vars == <<is_running, used_storage, files, cwd, image, mounted, disk,
          call, result, cmds, preStop, listing, path_arg, resolved,
          sim_pc, sim_next, sim_exit, sim_vm, storage_nodes>>

node == <<is_running, used_storage, files, cwd>>
host == <<image, mounted, disk>>
probe == <<path_arg, resolved>>
sim == <<sim_pc, sim_next, sim_exit, sim_vm, storage_nodes>>

\* A dict with no keys.
EmptyMap == [k \in {} |-> 0]

\* d[k] = v on a dict.
Put(d, k, v) == [x \in (DOMAIN d) \cup {k} |-> IF x = k THEN v ELSE d[x]]

\* VirtualFile(file_id, base_path, size_bytes, is_folder): the fields the
\* node reads back.
VirtualFile(size_bytes, is_folder) ==
    [size_bytes |-> size_bytes, is_folder |-> is_folder]

\* VirtualFile.path
VirtualFilePath(file_id) == PathJoin(disk_path, file_id)

\* preStop when the last call was not a successful stop().
NoSnapshot == [valid |-> FALSE, files |-> EmptyMap, used |-> 0]

\* vm_names of run_simulation.
vm_names == <<"vm1", "vm2">>

VmSet == {vm_names[i] : i \in DOMAIN vm_names}

\* A VM before its StorageVirtualNode is made: the file at its image_path,
\* whether that is mounted at its disk_path, and the node's is_running
\* (FALSE from the constructor) with whether start() was called on it.
NewVm(img) ==
    [image |-> img, mounted |-> FALSE, disk |-> EmptyMap,
     is_running |-> FALSE, started |-> FALSE]

\* run_simulation has not been called.
NoSim ==
    /\ sim_pc = "idle"
    /\ sim_next = 1
    /\ sim_exit = "none"
    /\ sim_vm = [vm \in VmSet |-> NewVm("absent")]
    /\ storage_nodes = <<>>

\* The node as its constructor leaves it, on a host with no image yet.
InitNode ==
    /\ is_running = FALSE
    /\ used_storage = 0
    /\ files = EmptyMap
    /\ cwd = <<"/">>
    /\ image = "absent"
    /\ mounted = FALSE
    /\ disk = EmptyMap
    /\ call = "init"
    /\ result = "none"
    /\ cmds = <<>>
    /\ preStop = NoSnapshot
    /\ listing = <<>>
    /\ path_arg = <<>>
    /\ resolved = <<>>

Init == InitNode /\ NoSim

\* -------------------------------------------------------------------- host

\* The tree of a newly formatted image, which the code takes to be empty
\* ("Disk is empty.").
FreshDisk == EmptyMap

\* The key inside the image a path under the mount directory names, "." for
\* the mount directory itself.
ImageKey(path) == RelPath(path, disk_path)

InImage(path) == ~StartsWith(ImageKey(path), <<".", ".">>)

\* Every ancestor directory of a key, and the key itself.
Prefixes(key) ==
    LET comps == SplitSep(key)
    IN  {JoinSep(SubSeq(comps, 1, n)) : n \in 1..Len(comps)}

IsDir(d, k)  == k \in DOMAIN d /\ d[k].is_dir
IsFile(d, k) == k \in DOMAIN d /\ ~d[k].is_dir

\* truncate -s size path, run while the image is mounted: it fails, changing
\* nothing, on a directory and under a missing parent.
HostTruncate(d, path, size) ==
    LET k == ImageKey(path)
    IN  IF ~InImage(path) \/ k = <<".">> THEN d
        ELSE IF PathHead(k) # <<>> /\ ~IsDir(d, PathHead(k)) THEN d
        ELSE IF IsDir(d, k) THEN d
        ELSE Put(d, k, [is_dir |-> FALSE, size |-> size])

\* mkdir -p path, run while the image is mounted: it makes the missing
\* ancestors too, and fails where a file is in the way.
HostMkdirP(d, path) ==
    LET k == ImageKey(path)
    IN  IF ~InImage(path) \/ k = <<".">> THEN d
        ELSE IF \E p \in Prefixes(k) : IsFile(d, p) THEN d
        ELSE [x \in (DOMAIN d) \cup Prefixes(k) |->
                 IF x \in DOMAIN d THEN d[x]
                 ELSE [is_dir |-> TRUE, size |-> DirStatSize]]

\* The host after one command of start() or stop().  mountOk is whether the
\* host's mount of a formatted image works this time.
HostStep(h, cmd, mountOk) ==
    CASE cmd = "truncate_image" ->
             [h EXCEPT !.image = IF h.image = "absent" THEN "raw" ELSE h.image]
      [] cmd = "mkfs" ->
             IF h.image = "absent" THEN h
             ELSE [h EXCEPT !.image = "formatted", !.disk = FreshDisk]
      [] cmd = "mount" ->
             [h EXCEPT !.mounted = h.mounted \/ (h.image = "formatted" /\ mountOk)]
      [] cmd = "umount" -> [h EXCEPT !.mounted = FALSE]
      [] OTHER -> h

RECURSIVE HostRun(_, _, _)
HostRun(h, cs, mountOk) ==
    IF cs = <<>> THEN h
    ELSE HostRun(HostStep(h, Head(cs), mountOk), Tail(cs), mountOk)

HostNow == [image |-> image, mounted |-> mounted, disk |-> disk]

SetHost(h) ==
    /\ image' = h.image
    /\ mounted' = h.mounted
    /\ disk' = h.disk

\* The host after a call whose commands are cs, the last of which raised if
\* raised: host.cmd raises for a command that failed, which changed nothing.
HostAfter(cs, raised, mountOk) ==
    IF raised
    THEN HostRun(HostNow, SubSeq(cs, 1, Len(cs) - 1), mountOk)
    ELSE HostRun(HostNow, cs, mountOk)

\* ------------------------------------------------------------------ rescan

\* The orders find can print the image's paths in: a directory before what
\* is under it, what is under it before the directory's next sibling.
FindOrders(d) ==
    LET n == Cardinality(DOMAIN d)
        Under(k, p) == StartsWith(k, p \o <<SEP>>)
    IN  {f \in [1..n -> DOMAIN d] :
            /\ \A i, j \in 1..n : i # j => f[i] # f[j]
            /\ \A i \in 1..n :
                   LET below == {j \in 1..n : Under(f[j], f[i])}
                   IN  below = (i + 1)..(i + Cardinality(below))}

\* stat -c "%s %F" of a path of the image.
StatSize(d, k) == IF d[k].is_dir THEN DirStatSize ELSE d[k].size

\* int(size_str) of the stat output, the size the rescan stores in the entry.
RescanSize(d, k) == StatSize(d, k)

\* The loop of _rescan_filesystem over the first paths find printed: each is
\* keyed by its path relative to the mount directory.
RECURSIVE RescanLoop(_, _, _)
RescanLoop(d, keys, acc) ==
    IF keys = <<>> THEN acc
    ELSE LET full_path == disk_path \o <<SEP>> \o Head(keys)
             path_key  == RelPath(full_path, disk_path)
             is_folder == d[Head(keys)].is_dir
             size_bytes == RescanSize(d, Head(keys))
         IN  IF path_key = <<".">> THEN RescanLoop(d, Tail(keys), acc)
             ELSE RescanLoop(d, Tail(keys),
                      [files |-> Put(acc.files, path_key,
                                     VirtualFile(size_bytes, is_folder)),
                       used  |-> IF is_folder THEN acc.used
                                 ELSE acc.used + size_bytes])

\* _rescan_filesystem, stopped by an exception after `done` paths when
\* done < Len(order).
Rescan(d, order, done) ==
    RescanLoop(d, SubSeq(order, 1, done), [files |-> EmptyMap, used |-> 0])

\* ------------------------------------------------------------------- start

\* Mutant of StartCmds: the image is allocated and formatted on every start.
StartCmdsAlwaysFormat ==
    <<"test", "truncate_image", "mkfs", "mkdir_mount", "mount", "chmod", "verify">>

\* Mutant of StartCmds: the mount is attempted before the image is made.
StartCmdsMountFirst ==
    <<"test", "mkdir_mount", "mount">>
    \o (IF image = "absent" THEN <<"truncate_image", "mkfs">> ELSE <<>>)
    \o <<"chmod", "verify">>

\* The commands start() hands to the host up to the mount verification.
StartCmds ==
    <<"test">>
    \o (IF image = "absent" THEN <<"truncate_image", "mkfs">> ELSE <<>>)
    \o <<"mkdir_mount", "mount", "chmod", "verify">>

\* What start() does with the node once the verification query is positive.
StartMounted(order, done, raised) ==
    LET r == Rescan(disk', order, done)
    IN  /\ is_running' = TRUE
        /\ files' = r.files
        /\ used_storage' = r.used
        /\ cmds' = StartCmds \o <<"find">>
                     \o [i \in 1..(IF raised THEN done + 1 ELSE done) |-> "stat"]
        /\ result' = IF raised THEN "Error" ELSE "Ok"

\* Mutant of StartAlreadyRunning: the early return resets the index.
StartAlreadyRunningResets ==
    /\ is_running
    /\ result' = "AlreadyRunning"
    /\ cmds' = <<>>
    /\ files' = EmptyMap
    /\ used_storage' = 0
    /\ UNCHANGED <<is_running, cwd, host>>

\* start() while running: the early return.
StartAlreadyRunning ==
    /\ is_running
    /\ result' = "AlreadyRunning"
    /\ cmds' = <<>>
    /\ UNCHANGED <<node, host>>

\* start() whose k-th command raises before the verification has answered.
StartRaisesEarly ==
    /\ ~is_running
    /\ \E k \in 1..Len(StartCmds), mountOk \in BOOLEAN :
           /\ SetHost(HostAfter(SubSeq(StartCmds, 1, k), TRUE, mountOk))
           /\ cmds' = SubSeq(StartCmds, 1, k)
    /\ result' = "Error"
    /\ UNCHANGED node

\* start() with no exception up to the verification: a negative answer is a
\* failed start; after a positive one the node is running and is rescanned.
\* The rescan's stat of path done + 1 raises, or its find does.
StartVerified ==
    /\ ~is_running
    /\ \E mountOk \in BOOLEAN :
           /\ SetHost(HostRun(HostNow, StartCmds, mountOk))
           /\ IF ~mounted'
              THEN /\ result' = "MountFailed"
                   /\ cmds' = StartCmds
                   /\ UNCHANGED node
              ELSE /\ UNCHANGED cwd
                   /\ \/ \E order \in FindOrders(disk') :
                             StartMounted(order, Len(order), FALSE)
                      \/ \E order \in FindOrders(disk') :
                             \E done \in 0..(Len(order) - 1) :
                                 StartMounted(order, done, TRUE)
                      \/ /\ is_running' = TRUE
                         /\ files' = EmptyMap
                         /\ used_storage' = 0
                         /\ cmds' = StartCmds \o <<"find">>
                         /\ result' = "Error"

\* StorageVirtualNode.start
Start ==
    /\ call' = "start"
    /\ listing' = <<>>
    /\ UNCHANGED <<probe, sim>>
    /\ preStop' = NoSnapshot
    /\ \/ StartAlreadyRunning
       \/ StartRaisesEarly
       \/ StartVerified

\* -------------------------------------------------------------------- stop

StopCmds == <<"umount", "rmdir">>

\* Mutant of StopClears: the index is not cleared.
StopKeepsIndex ==
    /\ is_running' = FALSE
    /\ used_storage' = 0
    /\ files' = files

\* What stop() does with the node once both commands have returned.
StopClears ==
    /\ is_running' = FALSE
    /\ used_storage' = 0
    /\ files' = EmptyMap

\* StorageVirtualNode.stop
Stop ==
    /\ call' = "stop"
    /\ listing' = <<>>
    /\ UNCHANGED <<probe, sim>>
    /\ \/ /\ ~is_running
          /\ result' = "NotRunning"
          /\ cmds' = <<>>
          /\ preStop' = NoSnapshot
          /\ UNCHANGED <<node, host>>
       \/ /\ is_running
          /\ \E k \in 1..Len(StopCmds) :
                 /\ SetHost(HostAfter(SubSeq(StopCmds, 1, k), TRUE, FALSE))
                 /\ cmds' = SubSeq(StopCmds, 1, k)
          /\ result' = "Error"
          /\ preStop' = NoSnapshot
          /\ UNCHANGED node
       \/ /\ is_running
          /\ SetHost(HostRun(HostNow, StopCmds, FALSE))
          /\ cmds' = StopCmds
          /\ StopClears
          /\ preStop' = [valid |-> TRUE, files |-> files, used |-> used_storage]
          /\ result' = "Ok"
          /\ UNCHANGED cwd

\* -------------------------------------------------------- path resolution

\* StorageVirtualNode._resolve_path
ResolvePath(path) ==
    IF path = <<>> THEN cwd
    ELSE LET abs_path ==
                 IF StartsWith(path, <<SEP>>) \/ StartsWith(path, <<"~">>)
                 THEN ReplaceFirst(path, "~", SEP)
                 ELSE PathJoin(cwd, path)
         IN  NormPath(abs_path)

\* Mutant of IsIndexedFolder: any indexed key passes, files too.
IsIndexed(key) == key \in DOMAIN files

\* The test of change_directory on a target other than the root.
IsIndexedFolder(key) == key \in DOMAIN files /\ files[key].is_folder

\* StorageVirtualNode.change_directory
ChangeDirectory(path) ==
    LET target_path == ResolvePath(path)
        key == LStrip(target_path)
    IN  /\ call' = "cd"
        /\ listing' = <<>>
        /\ UNCHANGED <<probe, sim>>
        /\ cmds' = <<>>
        /\ preStop' = NoSnapshot
        /\ IF target_path = <<SEP>>
           THEN /\ cwd' = <<SEP>>
                /\ result' = "Ok"
           ELSE IF IsIndexedFolder(key)
           THEN /\ cwd' = target_path
                /\ result' = "Ok"
           ELSE /\ cwd' = cwd
                /\ result' = "NoSuchDirectory"
        /\ UNCHANGED <<is_running, used_storage, files, host>>

\* ----------------------------------------------------------------- creation

\* Mutant of Refuse: the refusal forgets the usage.
RefuseResetsUsage(code) ==
    /\ result' = code
    /\ cmds' = <<>>
    /\ used_storage' = 0
    /\ UNCHANGED <<is_running, files, cwd, host>>

\* An early `return None` of create_virtual_file or create_virtual_folder:
\* nothing was handed to the host and nothing was assigned.
Refuse(code) ==
    /\ result' = code
    /\ cmds' = <<>>
    /\ UNCHANGED <<node, host>>

\* Mutant of KeyExists: only a key indexed as a folder is in the way.
KeyExistsAsFolder(path_key) ==
    path_key \in DOMAIN files /\ files[path_key].is_folder

\* The test `path_key in self.files` of create_virtual_folder.
KeyExists(path_key) == path_key \in DOMAIN files

\* Mutant of OverQuota: the usage so far is left out of the test.
OverQuotaSizeOnly(size_bytes) == size_bytes > TotalStorage

\* Mutant of OverQuota: a file that fills the capacity exactly is refused.
OverQuotaInclusive(size_bytes) == used_storage + size_bytes >= TotalStorage

\* The quota test of create_virtual_file.
OverQuota(size_bytes) == used_storage + size_bytes > TotalStorage

\* Mutant of ParentMissing: a parent that is indexed as a file passes.
ParentNotIndexed(path_key) ==
    LET parent_path == PathHead(path_key)
    IN  parent_path # <<>> /\ parent_path \notin DOMAIN files

\* The parent test of create_virtual_file and create_virtual_folder.
ParentMissing(path_key) ==
    LET parent_path == PathHead(path_key)
    IN  parent_path # <<>> /\ ~IsIndexedFolder(parent_path)

\* Mutant of OriginalSize: the entry being overwritten counts for nothing.
OriginalSizeIgnored(path_key) == 0

\* original_size of create_virtual_file.
OriginalSize(path_key) ==
    IF path_key \in DOMAIN files THEN files[path_key].size_bytes ELSE 0

\* A create command on the host: it reaches the image only while mounted.
HostCreate(d, raised) ==
    disk' = IF mounted /\ ~raised THEN d ELSE disk

\* Mutant of CreateVirtualFile: the parent is tested before the quota.
CreateVirtualFileParentFirst(path_key, size_bytes) ==
    /\ call' = "createFile"
    /\ listing' = <<>>
    /\ UNCHANGED <<probe, sim>>
    /\ preStop' = NoSnapshot
    /\ IF ~is_running
       THEN Refuse("NotRunning")
       ELSE IF ParentMissing(path_key)
       THEN Refuse("NoSuchParent")
       ELSE IF OverQuota(size_bytes)
       THEN Refuse("InsufficientStorage")
       ELSE /\ cmds' = <<"truncate">>
            /\ UNCHANGED <<image, mounted, is_running, cwd>>
            /\ \E raised \in BOOLEAN :
                   /\ IF raised
                      THEN /\ result' = "Error"
                           /\ UNCHANGED <<used_storage, files>>
                      ELSE /\ result' = "Ok"
                           /\ used_storage' = used_storage
                                  - OriginalSize(path_key) + size_bytes
                           /\ files' = Put(files, path_key,
                                           VirtualFile(size_bytes, FALSE))
                   /\ HostCreate(HostTruncate(disk, VirtualFilePath(path_key),
                                              size_bytes), raised)

\* StorageVirtualNode.create_virtual_file
CreateVirtualFile(path_key, size_bytes) ==
    /\ call' = "createFile"
    /\ listing' = <<>>
    /\ UNCHANGED <<probe, sim>>
    /\ preStop' = NoSnapshot
    /\ IF ~is_running
       THEN Refuse("NotRunning")
       ELSE IF OverQuota(size_bytes)
       THEN Refuse("InsufficientStorage")
       ELSE IF ParentMissing(path_key)
       THEN Refuse("NoSuchParent")
       ELSE /\ cmds' = <<"truncate">>
            /\ UNCHANGED <<image, mounted, is_running, cwd>>
            /\ \E raised \in BOOLEAN :
                   /\ IF raised
                      THEN /\ result' = "Error"
                           /\ UNCHANGED <<used_storage, files>>
                      ELSE /\ result' = "Ok"
                           /\ used_storage' = used_storage
                                  - OriginalSize(path_key) + size_bytes
                           /\ files' = Put(files, path_key,
                                           VirtualFile(size_bytes, FALSE))
                   /\ HostCreate(HostTruncate(disk, VirtualFilePath(path_key),
                                              size_bytes), raised)

\* StorageVirtualNode.create_virtual_folder
CreateVirtualFolder(path_key) ==
    /\ call' = "createFolder"
    /\ listing' = <<>>
    /\ UNCHANGED <<probe, sim>>
    /\ preStop' = NoSnapshot
    /\ IF ~is_running
       THEN Refuse("NotRunning")
       ELSE IF KeyExists(path_key)
       THEN Refuse("AlreadyExists")
       ELSE IF ParentMissing(path_key)
       THEN Refuse("NoSuchParent")
       ELSE /\ cmds' = <<"mkdir">>
            /\ UNCHANGED <<image, mounted, is_running, cwd, used_storage>>
            /\ \E raised \in BOOLEAN :
                   /\ IF raised
                      THEN /\ result' = "Error"
                           /\ UNCHANGED files
                      ELSE /\ result' = "Ok"
                           /\ files' = Put(files, path_key, VirtualFile(0, TRUE))
                   /\ HostCreate(HostMkdirP(disk, VirtualFilePath(path_key)),
                                 raised)

\* ----------------------------------------------------------------- listing

\* target_dir of list_contents.
ListTargetDir == IF cwd = <<SEP>> THEN <<>> ELSE LStrip(cwd)

\* Mutant of ListedIn: everything below the directory is listed.
ListedBelow(file_key, target_dir) == StartsWith(file_key, target_dir)

\* The filter of list_contents: the entry's parent is the directory listed.
ListedIn(file_key, target_dir) == PathHead(file_key) = target_dir

\* The line list_contents prints for an entry.
ListLine(file_key) ==
    LET basename == PathTail(file_key)
        f == files[file_key]
    IN  IF f.is_folder
        THEN <<"d", " ", "-", "-", "-">> \o [i \in 1..8 |-> " "]
                 \o basename \o <<"/">>
        ELSE <<"-", " ">> \o PadRight(Str(f.size_bytes) \o <<"B">>, 10)
                 \o <<" ">> \o basename

\* The lines of list_contents on a running node.
ListLines ==
    LET keys == SelectSeq(SortedKeys(DOMAIN files),
                          LAMBDA k : ListedIn(k, ListTargetDir))
    IN  [i \in 1..Len(keys) |-> ListLine(keys[i])]

\* Mutant of ListContents: listing goes back to the root directory.
ListContentsResetsCwd ==
    /\ call' = "ls"
    /\ cmds' = <<>>
    /\ preStop' = NoSnapshot
    /\ IF ~is_running
       THEN /\ result' = "NotRunning"
            /\ listing' = <<>>
       ELSE /\ result' = "Ok"
            /\ listing' = ListLines
    /\ cwd' = <<SEP>>
    /\ UNCHANGED <<is_running, used_storage, files, host, probe, sim>>

\* StorageVirtualNode.list_contents
ListContents ==
    /\ call' = "ls"
    /\ cmds' = <<>>
    /\ preStop' = NoSnapshot
    /\ IF ~is_running
       THEN /\ result' = "NotRunning"
            /\ listing' = <<>>
       ELSE /\ result' = "Ok"
            /\ listing' = ListLines
    /\ UNCHANGED <<node, host, probe, sim>>

\* StorageVirtualNode._resolve_path called on its own, as do_mkdir and
\* do_touch call it.
Resolve(path) ==
    /\ call' = "resolve"
    /\ result' = "Ok"
    /\ cmds' = <<>>
    /\ preStop' = NoSnapshot
    /\ listing' = <<>>
    /\ path_arg' = path
    /\ resolved' = ResolvePath(path)
    /\ UNCHANGED <<node, host, sim>>

\* ------------------------------------------------------------ specification

\* The node driven through its methods with well-formed keys.
Next ==
    \/ Start
    \/ Stop
    \/ \E path \in CdInputs : ChangeDirectory(path)
    \/ \E path_key \in KeyInputs, size_bytes \in Sizes :
           CreateVirtualFile(path_key, size_bytes)
    \/ \E path_key \in FolderInputs : CreateVirtualFolder(path_key)
    \/ ListContents

Spec == Init /\ [][Next]_vars

\* The node driven through its methods with the keys a direct caller can
\* pass.
NextDirect ==
    \/ Start
    \/ Stop
    \/ \E path_key \in DirectKeys, size_bytes \in Sizes :
           CreateVirtualFile(path_key, size_bytes)
    \/ \E path_key \in DirectKeys : CreateVirtualFolder(path_key)

SpecDirect == Init /\ [][NextDirect]_vars

\* The node driven with create_virtual_file calls for a/b only, while no
\* call makes its parent a: folder b is the only entry there can be.
NextOrphan ==
    \/ Start
    \/ Stop
    \/ CreateVirtualFolder(KeyB)
    \/ \E size_bytes \in Sizes : CreateVirtualFile(KeyAB, size_bytes)

SpecOrphan == Init /\ [][NextOrphan]_vars

\* The folder entries create_virtual_folder made on the way to a cwd.
FoldersTo(dir) ==
    LET key == LStrip(dir)
    IN  IF key = <<>> THEN EmptyMap
        ELSE [k \in Prefixes(key) |-> VirtualFile(0, TRUE)]

\* The directories mkdir -p made in the image on the way to a cwd.
DirsTo(dir) ==
    LET key == LStrip(dir)
    IN  IF key = <<>> THEN EmptyMap
        ELSE [k \in Prefixes(key) |-> [is_dir |-> TRUE, size |-> DirStatSize]]

\* The node after the folders down to some cwd were created and entered,
\* and perhaps after the stop() that followed, which leaves cwd as it is.
InitResolve ==
    /\ cwd \in CwdValues
    /\ is_running \in BOOLEAN
    /\ used_storage = 0
    /\ files = IF is_running THEN FoldersTo(cwd) ELSE EmptyMap
    /\ image = "formatted"
    /\ mounted = is_running
    /\ disk = DirsTo(cwd)
    /\ call = IF is_running THEN "cd" ELSE "stop"
    /\ result = "Ok"
    /\ cmds = IF is_running THEN <<>> ELSE StopCmds
    /\ preStop = IF is_running THEN NoSnapshot
                 ELSE [valid |-> TRUE, files |-> FoldersTo(cwd), used |-> 0]
    /\ listing = <<>>
    /\ path_arg = <<>>
    /\ resolved = <<>>
    /\ NoSim

NextResolve == \E path \in ResolveInputs : Resolve(path)

SpecResolve == InitResolve /\ [][NextResolve]_vars

\* -------------------------------------------------------------- simulation

\* Multi_VM_P2P.run_simulation with its two storage nodes.  A VM's record is
\* a host record (image, mounted, disk) with the node's is_running added, so
\* the host's commands act on it as they do on the single node's host.

single == <<node, host, call, result, cmds, preStop, listing, probe>>

\* The states the image file of a VM can be in when a run begins: the
\* images outlive the runs.
ImageStates == {"absent", "raw", "formatted"}

\* The commands start() hands to the VM up to the mount verification.
SimStartCmds(h) ==
    <<"test">>
    \o (IF h.image = "absent" THEN <<"truncate_image", "mkfs">> ELSE <<>>)
    \o <<"mkdir_mount", "mount", "chmod", "verify">>

\* StorageVirtualNode.start on a VM: the VM after the call, with what the
\* call returned.  A command raises, or the verification does not find the
\* mount, or it does: then is_running is set and the rescan follows, and a
\* rescan that raises makes start() return False.
SimStart(h) ==
    LET cs == SimStartCmds(h)
        called == [h EXCEPT !.started = TRUE]
    IN  IF h.is_running THEN {[vm |-> called, returned |-> FALSE]}
        ELSE {[vm |-> HostRun(called, SubSeq(cs, 1, k - 1), mountOk),
               returned |-> FALSE] : k \in 1..Len(cs), mountOk \in BOOLEAN}
             \cup
             UNION {LET h2 == HostRun(called, cs, mountOk)
                    IN  IF ~h2.mounted
                        THEN {[vm |-> h2, returned |-> FALSE]}
                        ELSE {[vm |-> [h2 EXCEPT !.is_running = TRUE],
                               returned |-> rescanned] : rescanned \in BOOLEAN}
                    : mountOk \in BOOLEAN}

\* StorageVirtualNode.stop on a VM: the VM after the call.  A command that
\* raises leaves the node running.
SimStop(h) ==
    IF ~h.is_running THEN {h}
    ELSE {HostRun(h, SubSeq(StopCmds, 1, k - 1), FALSE) : k \in 1..Len(StopCmds)}
         \cup {[HostRun(h, StopCmds, FALSE) EXCEPT !.is_running = FALSE]}

\* run_simulation up to its first loop: net.start() and the lookups, any of
\* which may raise.
SimBegin ==
    /\ sim_pc = "idle"
    /\ \/ /\ sim_pc' = "setup"
          /\ sim_exit' = sim_exit
       \/ /\ sim_pc' = "shutdown"
          /\ sim_exit' = "exception"
    /\ sim_next' = 1
    /\ UNCHANGED <<sim_vm, storage_nodes, single>>

\* One turn of the loop that makes and starts the storage nodes: a node
\* whose start() returned False ends the run and is not registered.
SimStartNode ==
    /\ sim_pc = "setup"
    /\ sim_next \in DOMAIN vm_names
    /\ LET vm_name == vm_names[sim_next]
       IN  \E o \in SimStart(sim_vm[vm_name]) :
               /\ sim_vm' = [sim_vm EXCEPT ![vm_name] = o.vm]
               /\ IF o.returned
                  THEN /\ storage_nodes' = Append(storage_nodes, vm_name)
                       /\ sim_next' = sim_next + 1
                       /\ UNCHANGED <<sim_pc, sim_exit>>
                  ELSE /\ sim_pc' = "shutdown"
                       /\ sim_exit' = "start_failed"
                       /\ sim_next' = 1
                       /\ UNCHANGED storage_nodes
    /\ UNCHANGED single

\* Every node started: run_simulation enters CLI(net).
SimCli ==
    /\ sim_pc = "setup"
    /\ sim_next \notin DOMAIN vm_names
    /\ sim_pc' = "cli"
    /\ UNCHANGED <<sim_next, sim_exit, sim_vm, storage_nodes, single>>

\* CLI(net) returns, or raises.
SimCliEnds ==
    /\ sim_pc = "cli"
    /\ sim_pc' = "shutdown"
    /\ sim_exit' \in {"normal", "exception"}
    /\ sim_next' = 1
    /\ UNCHANGED <<sim_vm, storage_nodes, single>>

\* One turn of the loop of the finally block over storage_nodes.
SimStopNode ==
    /\ sim_pc = "shutdown"
    /\ sim_next \in DOMAIN storage_nodes
    /\ LET vm_name == storage_nodes[sim_next]
       IN  \E h \in SimStop(sim_vm[vm_name]) :
               sim_vm' = [sim_vm EXCEPT ![vm_name] = h]
    /\ sim_next' = sim_next + 1
    /\ UNCHANGED <<sim_pc, sim_exit, storage_nodes, single>>

\* The end of the finally block: net.stop().
SimNetStop ==
    /\ sim_pc = "shutdown"
    /\ sim_next \notin DOMAIN storage_nodes
    /\ sim_pc' = "done"
    /\ UNCHANGED <<sim_next, sim_exit, sim_vm, storage_nodes, single>>

InitSim ==
    /\ InitNode
    /\ sim_pc = "idle"
    /\ sim_next = 1
    /\ sim_exit = "none"
    /\ sim_vm \in [VmSet -> {NewVm(img) : img \in ImageStates}]
    /\ storage_nodes = <<>>

NextSim ==
    \/ SimBegin
    \/ SimStartNode
    \/ SimCli
    \/ SimCliEnds
    \/ SimStopNode
    \/ SimNetStop

SpecSim == InitSim /\ [][NextSim]_vars

\* ------------------------------------------------------------------ claims

\* Sum of size_bytes over the entries of an index that are not folders.
RECURSIVE FileBytes(_, _)
FileBytes(index, keys) ==
    IF keys = {} THEN 0
    ELSE LET k == CHOOSE x \in keys : TRUE
         IN  (IF index[k].is_folder THEN 0 ELSE index[k].size_bytes)
                 + FileBytes(index, keys \ {k})

\* C1: in every reachable state used_storage equals the sum of size_bytes
\* over the entries of files that are not folders.
C1_UsedEqualsFileBytes ==
    used_storage = FileBytes(files, DOMAIN files)

\* C2: in every reachable state used_storage is at most the capacity.
C2_UsedWithinCapacity ==
    used_storage <= TotalStorage

\* The parent component of key is empty or is indexed as a folder.
ParentIsFolder(key) ==
    \/ PathHead(key) = <<>>
    \/ /\ PathHead(key) \in DOMAIN files
       /\ files[PathHead(key)].is_folder

\* C3, as claimed: on a running node create_virtual_file is refused for
\* insufficient storage exactly when used_storage + size_bytes exceeds the
\* capacity; under a parent that is empty or an indexed folder, the size
\* capacity - used_storage + 1 is refused and the size capacity -
\* used_storage succeeds.
C3_QuotaBoundaryAsClaimed ==
    [][\A k \in KeyInputs, s \in Sizes :
          (is_running /\ CreateVirtualFile(k, s)) =>
              /\ (result' = "InsufficientStorage")
                     <=> (used_storage + s > TotalStorage)
              /\ (ParentIsFolder(k) /\ s = TotalStorage - used_storage + 1)
                     => result' = "InsufficientStorage"
              /\ (ParentIsFolder(k) /\ s = TotalStorage - used_storage)
                     => result' = "Ok"]_vars

\* C3, amended: as C3, but the size capacity - used_storage succeeds unless
\* the truncate command raises, and then the call fails leaving files and
\* used_storage as they were.
C3_QuotaBoundary ==
    [][\A k \in KeyInputs, s \in Sizes :
          (is_running /\ CreateVirtualFile(k, s)) =>
              /\ (result' = "InsufficientStorage")
                     <=> (used_storage + s > TotalStorage)
              /\ (ParentIsFolder(k) /\ s = TotalStorage - used_storage + 1)
                     => result' = "InsufficientStorage"
              /\ (ParentIsFolder(k) /\ s = TotalStorage - used_storage)
                     => \/ result' = "Ok"
                        \/ /\ result' = "Error"
                           /\ cmds' = <<"truncate">>
                           /\ files' = files
                           /\ used_storage' = used_storage]_vars

\* C3 witness: a create_virtual_file on an empty index succeeded with the
\* whole capacity as its size.
C3_Witness ==
    /\ call = "createFile"
    /\ result = "Ok"
    /\ Cardinality(DOMAIN files) = 1
    /\ \A k \in DOMAIN files : files[k].size_bytes = TotalStorage
    /\ used_storage = TotalStorage

\* C4, as claimed: on a running node create_virtual_file and
\* create_virtual_folder fail with NoSuchParent and add no entry whenever the
\* key's parent is non-empty and not indexed as a folder; under a parent that
\* is an indexed folder create_virtual_file succeeds.
C4_NoSuchParentAsClaimed ==
    [][/\ \A k \in KeyInputs, s \in Sizes :
              (is_running /\ CreateVirtualFile(k, s)) =>
                  /\ ~ParentIsFolder(k)
                         => (result' = "NoSuchParent" /\ files' = files)
                  /\ (PathHead(k) # <<>> /\ ParentIsFolder(k))
                         => result' = "Ok"
       /\ \A k \in FolderInputs :
              (is_running /\ ~ParentIsFolder(k) /\ CreateVirtualFolder(k))
                  => (result' = "NoSuchParent" /\ files' = files)]_vars

\* C4, amended: under a parent that is non-empty and not indexed as a folder
\* both calls fail and add no entry; the failure is NoSuchParent unless
\* create_virtual_file's size exceeds the quota (InsufficientStorage) or
\* create_virtual_folder's key is already indexed (AlreadyExists).  Under a
\* parent that is an indexed folder, a create_virtual_file within the quota
\* succeeds unless the truncate command raises.
C4_NoSuchParent ==
    [][/\ \A k \in KeyInputs, s \in Sizes :
              (is_running /\ CreateVirtualFile(k, s)) =>
                  /\ ~ParentIsFolder(k) =>
                         /\ files' = files
                         /\ used_storage' = used_storage
                         /\ result' = IF used_storage + s > TotalStorage
                                      THEN "InsufficientStorage"
                                      ELSE "NoSuchParent"
                  /\ (/\ PathHead(k) # <<>>
                      /\ ParentIsFolder(k)
                      /\ used_storage + s <= TotalStorage) =>
                         \/ /\ result' = "Ok"
                            /\ k \in DOMAIN files'
                            /\ ~files'[k].is_folder
                         \/ /\ result' = "Error"
                            /\ files' = files
       /\ \A k \in FolderInputs :
              (is_running /\ ~ParentIsFolder(k) /\ CreateVirtualFolder(k)) =>
                  /\ files' = files
                  /\ result' = IF k \in DOMAIN files
                               THEN "AlreadyExists"
                               ELSE "NoSuchParent"]_vars

\* C4 witness: a create_virtual_file was refused with NoSuchParent.
C4_Witness ==
    /\ call = "createFile"
    /\ result = "NoSuchParent"
    /\ is_running

\* C5: every proper path prefix of every indexed key is itself indexed as a
\* folder.
C5_ParentsAreFolders ==
    \A k \in DOMAIN files :
        \A p \in Prefixes(k) \ {k} :
            p \in DOMAIN files /\ files[p].is_folder

\* C6: a successful start() straight after a successful stop() rebuilds the
\* index stop() cleared, entry for entry, and the same used_storage.
C6_RestartRestoresIndex ==
    [][(preStop.valid /\ call' = "start" /\ result' = "Ok") =>
           (files' = preStop.files /\ used_storage' = preStop.used)]_vars

\* C7: after a start() that reported failure on a stopped node the node is
\* not running.
C7_FailedStartIsStopped ==
    (call = "start" /\ result \in {"MountFailed", "Error"}) => ~is_running

\* C8: start() while running and stop() while not running fail, hand no
\* command to the host and leave is_running, files, used_storage and cwd as
\* they were.
C8_LifecycleMisuseIsNoOp ==
    [][/\ (call' = "start" /\ is_running) =>
              /\ result' = "AlreadyRunning"
              /\ cmds' = <<>>
              /\ UNCHANGED <<is_running, files, used_storage, cwd>>
       /\ (call' = "stop" /\ ~is_running) =>
              /\ result' = "NotRunning"
              /\ cmds' = <<>>
              /\ UNCHANGED <<is_running, files, used_storage, cwd>>]_vars

\* C8 witness: start() was refused on a running node that holds entries.
C8_Witness ==
    /\ call = "start"
    /\ result = "AlreadyRunning"
    /\ is_running
    /\ files # EmptyMap

\* C9: while the node is not running files is empty and used_storage is 0,
\* and a successful stop() leaves the node not running.
C9_StoppedNodeIsEmpty ==
    /\ ~is_running => (files = EmptyMap /\ used_storage = 0)
    /\ (call = "stop" /\ result = "Ok") => ~is_running

\* C9 witness: a successful stop() cleared an index that held entries and a
\* usage above 0.
C9_Witness ==
    /\ call = "stop"
    /\ result = "Ok"
    /\ preStop.valid
    /\ preStop.files # EmptyMap
    /\ preStop.used > 0

\* C10: change_directory succeeds, setting cwd to the resolved path, exactly
\* when that path is the root or its key is indexed as a folder; otherwise
\* it fails and cwd is unchanged.
C10_ChangeDirectory ==
    [][\A path \in CdInputs :
          ChangeDirectory(path) =>
              LET target == ResolvePath(path)
                  key    == LStrip(target)
              IN  IF \/ target = <<"/">>
                     \/ (key \in DOMAIN files /\ files[key].is_folder)
                  THEN result' = "Ok" /\ cwd' = target
                  ELSE result' = "NoSuchDirectory" /\ cwd' = cwd]_vars

\* C10 witness: change_directory from the root to an indexed file failed and
\* left cwd at the root.
C10_Witness ==
    /\ call = "cd"
    /\ result = "NoSuchDirectory"
    /\ cwd = <<"/">>
    /\ KeyA \in DOMAIN files
    /\ ~files[KeyA].is_folder

\* The name a line of a listing ends in, after its 13 columns of type and
\* size.
LineName(line) == SubSeq(line, 14, Len(line))

C12_Resolve ==
    [][\A path \in ResolveInputs :
          Resolve(path) =>
              /\ resolved' =
                     IF path = <<>> THEN cwd
                     ELSE IF Head(path) = "/" THEN NormPath(path)
                     ELSE IF Head(path) = "~" THEN NormPath(<<"/">> \o Tail(path))
                     ELSE NormPath(PathJoin(cwd, path))
              /\ (path = <<".", ".">> /\ cwd = <<"/", "a", "/", "b">>)
                     => resolved' = <<"/", "a">>
              /\ path = <<"/", "a", "/", "b">>
                     => resolved' = <<"/", "a", "/", "b">>
              /\ UNCHANGED <<node, host>>]_vars

\* C13: create_virtual_folder on a running node fails with AlreadyExists
\* whenever its key is indexed, as a file or as a folder, and leaves the
\* index as it was; and no create_virtual_folder call changes used_storage.
C13_FolderAlreadyExists ==
    [][\A k \in FolderInputs :
          CreateVirtualFolder(k) =>
              /\ used_storage' = used_storage
              /\ (is_running /\ k \in DOMAIN files) =>
                     /\ result' = "AlreadyExists"
                     /\ files' = files]_vars

\* C13 witness: create_virtual_folder was refused with AlreadyExists for a
\* key indexed as a file, with the file's bytes still counted.
C13_Witness ==
    /\ call = "createFolder"
    /\ result = "AlreadyExists"
    /\ DOMAIN files = {KeyA}
    /\ ~files[KeyA].is_folder
    /\ files[KeyA].size_bytes = TotalStorage
    /\ used_storage = TotalStorage

\* C14: a create_virtual_file or create_virtual_folder call that fails a
\* validation (NotRunning, InsufficientStorage, NoSuchParent, AlreadyExists)
\* hands no command to the host and leaves files, used_storage, is_running
\* and cwd as they were.
C14_RefusalIsNoOp ==
    [][(/\ call' \in {"createFile", "createFolder"}
        /\ result' \in {"NotRunning", "InsufficientStorage",
                         "NoSuchParent", "AlreadyExists"}) =>
           /\ cmds' = <<>>
           /\ UNCHANGED <<files, used_storage, is_running, cwd>>
           /\ UNCHANGED <<image, mounted, disk>>]_vars

\* C14 witness: create_virtual_file was refused for insufficient storage on
\* a node whose index holds entries and whose usage is above 0.
C14_Witness ==
    /\ call = "createFile"
    /\ result = "InsufficientStorage"
    /\ cmds = <<>>
    /\ files # EmptyMap
    /\ used_storage > 0

\* C15: every folder entry of files has size_bytes 0.
C15_FolderSizeIsZero ==
    \A k \in DOMAIN files : files[k].is_folder => files[k].size_bytes = 0

\* Whether a command is among those a call handed to the host.
Issued(cs, c) == \E i \in DOMAIN cs : cs[i] = c

\* C16: start() hands the allocate and format commands to the host only
\* when the image is absent, and then after the existence check; when the
\* image exists start() issues neither and leaves the image and the tree in
\* it as they were; stop() issues only the unmount and the removal of the
\* mount directory and leaves them as they were; so a formatted image stays
\* formatted, whatever is called.
C16_ImageNeverReformatted ==
    [][/\ call' = "start" =>
              /\ (Issued(cmds', "truncate_image") \/ Issued(cmds', "mkfs"))
                     => (image = "absent" /\ cmds'[1] = "test")
              /\ image # "absent" => (image' = image /\ disk' = disk)
       /\ call' = "stop" =>
              /\ \A i \in DOMAIN cmds' : cmds'[i] \in {"umount", "rmdir"}
              /\ image' = image
              /\ disk' = disk
       /\ image = "formatted" => image' = "formatted"]_vars

\* C16 witness: a start() that succeeded without formatting, on an image
\* that held entries from before.
C16_Witness ==
    /\ call = "start"
    /\ result = "Ok"
    /\ ~Issued(cmds, "mkfs")
    /\ ~Issued(cmds, "truncate_image")
    /\ image = "formatted"
    /\ disk # EmptyMap
    /\ files # EmptyMap

\* The place of a command in the order of events of start(), 0 for a
\* command that is not one of them.
StartRank(c) ==
    CASE c = "test" -> 1
      [] c = "truncate_image" -> 2
      [] c = "mkfs" -> 3
      [] c = "mkdir_mount" -> 4
      [] c = "mount" -> 5
      [] c = "verify" -> 6
      [] c = "find" -> 7
      [] OTHER -> 0

\* C17: the commands of a start() on a stopped node come in the order
\* existence check, allocate and format (only if the image is absent, and
\* then always before the mount directory is made), mount directory, mount,
\* verification, none of them twice and none without the one before it;
\* is_running becomes true only after a verification that found the mount;
\* the rescan runs only once is_running is true, and never after a
\* verification that did not find the mount.
C17_StartOrder ==
    [][(call' = "start" /\ ~is_running) =>
          LET events == SelectSeq(cmds', LAMBDA c : StartRank(c) > 0)
          IN  /\ \A i, j \in DOMAIN events :
                     i < j => StartRank(events[i]) < StartRank(events[j])
              /\ Issued(cmds', "truncate_image")
                     => (Issued(cmds', "test") /\ image = "absent")
              /\ Issued(cmds', "mkfs") => Issued(cmds', "truncate_image")
              /\ Issued(cmds', "mkdir_mount") =>
                     /\ Issued(cmds', "test")
                     /\ image = "absent" => Issued(cmds', "mkfs")
              /\ Issued(cmds', "mount") => Issued(cmds', "mkdir_mount")
              /\ Issued(cmds', "verify") => Issued(cmds', "mount")
              /\ is_running' => (Issued(cmds', "verify") /\ mounted')
              /\ (Issued(cmds', "find") \/ Issued(cmds', "stat"))
                     => (Issued(cmds', "verify") /\ mounted' /\ is_running')
              /\ result' = "MountFailed" =>
                     /\ ~is_running'
                     /\ ~Issued(cmds', "find")
                     /\ files' = files]_vars

\* C17 witness: a start() on an absent image went through every event, the
\* rescan included, and the node is running.
C17_Witness ==
    /\ call = "start"
    /\ result = "Ok"
    /\ is_running
    /\ cmds = <<"test", "truncate_image", "mkfs", "mkdir_mount", "mount",
                "chmod", "verify", "find">>

\* C18: a successful create_virtual_file(k, s) on a running node leaves
\* files[k] a file entry of size s, changes no other entry, and sets
\* used_storage to its value before, minus the size of the entry k had
\* before (0 if it had none), plus s; a key that is already indexed is never
\* a reason to refuse the call.
C18_CreateFileEffect ==
    [][\A k \in KeyInputs, s \in Sizes :
          (is_running /\ CreateVirtualFile(k, s)) =>
              /\ result' = "Ok" =>
                     /\ DOMAIN files' = (DOMAIN files) \cup {k}
                     /\ files'[k] = [size_bytes |-> s, is_folder |-> FALSE]
                     /\ \A x \in (DOMAIN files) \ {k} : files'[x] = files[x]
                     /\ used_storage' =
                            used_storage
                              - (IF k \in DOMAIN files
                                 THEN files[k].size_bytes ELSE 0)
                              + s
              /\ result' # "AlreadyExists"
              /\ (/\ k \in DOMAIN files
                  /\ used_storage + s <= TotalStorage
                  /\ ParentIsFolder(k)) => result' \in {"Ok", "Error"}]_vars

\* C18 witness: a create_virtual_file succeeded on key a while a/b is
\* indexed, so a was indexed before the call and has been overwritten by a
\* file entry.
C18_Witness ==
    /\ call = "createFile"
    /\ result = "Ok"
    /\ DOMAIN files = {KeyA, KeyAB}
    /\ ~files[KeyA].is_folder

\* C19: a create_virtual_file that overwrites an indexed file is refused for
\* insufficient storage whenever used_storage + size_bytes exceeds the
\* capacity, also when used_storage minus the old size plus size_bytes does
\* not; files and used_storage are then as they were.
C19_QuotaIgnoresOverwrite ==
    [][\A k \in KeyInputs, s \in Sizes :
          (/\ is_running
           /\ k \in DOMAIN files
           /\ ~files[k].is_folder
           /\ used_storage + s > TotalStorage
           /\ CreateVirtualFile(k, s)) =>
              /\ result' = "InsufficientStorage"
              /\ files' = files
              /\ used_storage' = used_storage]_vars

\* C19 witness: a create_virtual_file was refused for insufficient storage
\* while every key it can name is indexed as a file, the usage is the
\* capacity and one file accounts for all of it: the call was an overwrite,
\* and overwriting that file by one of its own size would not have raised
\* the usage.
C19_Witness ==
    /\ call = "createFile"
    /\ result = "InsufficientStorage"
    /\ DOMAIN files = KeyInputs
    /\ \A k \in KeyInputs : ~files[k].is_folder
    /\ used_storage = TotalStorage
    /\ files[KeyB].size_bytes = TotalStorage

\* C20: no key of files is empty, is ".", or begins with "/".
C20_KeysAreRelative ==
    \A k \in DOMAIN files :
        /\ k # <<>>
        /\ k # <<".">>
        /\ Head(k) # "/"

\* C21: list_contents hands no command to the host and leaves files,
\* used_storage, is_running, cwd and the host as they were, in any state; on
\* a stopped node it returns the not-running message and no listing.
C21_ListingIsPureRead ==
    [][call' = "ls" =>
          /\ cmds' = <<>>
          /\ UNCHANGED <<files, used_storage, is_running, cwd>>
          /\ UNCHANGED <<image, mounted, disk>>
          /\ ~is_running => (result' = "NotRunning" /\ listing' = <<>>)
          /\ is_running => result' = "Ok"]_vars

\* C21 witness: list_contents was called on a stopped node whose image
\* holds entries and whose cwd is not the root, and returned the
\* not-running message.
C21_Witness ==
    /\ call = "ls"
    /\ result = "NotRunning"
    /\ ~is_running
    /\ disk # EmptyMap
    /\ cwd = <<"/", "a">>

\* C22: create_virtual_file tests NotRunning, then InsufficientStorage, then
\* NoSuchParent: on a stopped node it reports NotRunning whatever its
\* arguments; on a running node, for a key whose parent is missing, it
\* reports InsufficientStorage if the size exceeds the quota and NoSuchParent
\* only if it does not.
C22_CheckOrder ==
    [][\A k \in KeyInputs, s \in Sizes :
          CreateVirtualFile(k, s) =>
              /\ ~is_running => result' = "NotRunning"
              /\ (is_running /\ ~ParentIsFolder(k)) =>
                     result' = IF used_storage + s > TotalStorage
                               THEN "InsufficientStorage"
                               ELSE "NoSuchParent"]_vars

\* C22 witness: where every create_virtual_file names a missing parent, a
\* call on a running node was refused for insufficient storage.
C22_Witness ==
    /\ call = "createFile"
    /\ result = "InsufficientStorage"
    /\ is_running
    /\ KeyA \notin DOMAIN files

\* C23: while the node is running, cwd is the root or a path whose key is
\* indexed as a folder.
C23_CwdIsIndexedFolder ==
    is_running =>
        \/ cwd = <<"/">>
        \/ /\ LStrip(cwd) \in DOMAIN files
           /\ files[LStrip(cwd)].is_folder

\* C24: when run_simulation has ended, however it came to its end, no
\* storage node on which start() was called is running.
C24_SimulationStopsNodes ==
    sim_pc = "done" =>
        \A vm \in VmSet : sim_vm[vm].started => ~sim_vm[vm].is_running

====
